---- MODULE Spec2Model ----
(***************************************************************************)
(* Model of the signal engine of src/src/strategy.ts (latest revision,     *)
(* lines 1-710): the rate-limited fetcher getHistoricalData with its       *)
(* process-wide lastRequestTime, and getSignal on top of it.               *)
(*                                                                         *)
(* Time is in milliseconds.  The clock advances in steps of one second,    *)
(* the unit of every delay in the code (2000, 1000 * retries,              *)
(* 2^retries * 1000).  A timer (setTimeout) never fires before its         *)
(* deadline and at most MaxLate seconds after it; a provider response may  *)
(* arrive at any time after the request.                                   *)
(***************************************************************************)
EXTENDS Integers, Sequences, FiniteSets, TLC

RATE_LIMIT_DELAY == 2000
MAX_RETRIES == 3
Second == 1000

\* Bound: how many seconds the clock may advance.
MaxTicks == 7

\* Bound: how many seconds after its deadline a timer may still be pending.
MaxLate == 0

\* The requests the server handles at the same time.
Callers == {1, 2}

\* Date.now() when the process starts: long after the epoch, so that the
\* first call finds now - lastRequestTime >= RATE_LIMIT_DELAY.
StartTime == RATE_LIMIT_DELAY

\* JSON null inside the provider's close array.
Null == -1

\* The interval arguments: the three the code knows and one it does not.
Intervals == {"1d", "1wk", "1mo", "1h"}

\* The intervals the requests of the concurrent server model use.
ServerIntervals == {"1d", "1wk"}

VARIABLES
    now,              \* Date.now()
    lastRequestTime,  \* strategy.ts:6
    pc,               \* pc[p]: where caller p is suspended
    interval,         \* interval[p]: the interval argument of the call
    retries,          \* retries[p]: strategy.ts:72
    wakeAt,           \* wakeAt[p]: deadline of the pending sleep() of p
    failedAt,         \* failedAt[p]: time the catch block last ran for p
    attempts,         \* attempts[p]: per failed attempt, the status the catch block
                      \*   saw and the backoff it slept
    resp,             \* resp[p]: the response the caller is handling (kept while
                      \*   it backs off, and once getHistoricalData is over)
    fetched,          \* fetched[p]: outcome of getHistoricalData
    signal,           \* signal[p]: outcome of getSignal
    sends,            \* the two most recent outbound requests
    overlap           \* history: two getHistoricalData calls were in flight at once

vars == <<now, lastRequestTime, pc, interval, retries, wakeAt, failedAt,
          attempts, resp, fetched, signal, sends, overlap>>

----------------------------------------------------------------------------
(* Provider responses *)

\* A close array of the model: prices are positive integers, Null is null.
CloseArrays ==
    { <<>>, <<Null, Null>>, <<5, Null, 7>>, <<3, 4, 5, 6>> }

\* What axios.get can produce.  status 0: no response at all (network error);
\* a non-2xx status rejects with an AxiosError carrying response.status.
\* For a 200, shape tells what is found at
\* data.chart.result[0].indicators.quote[0].close:
\*   "falsy"    res.data itself is falsy (empty body)
\*   "noClose"  res.data is an object but the path is missing or close is falsy
\*   "nonArray" close is truthy but not an array
\*   "array"    close is an array (possibly empty)
Responses ==
    { [status |-> s, shape |-> "error", close |-> <<>>] : s \in {0, 404, 429, 500} }
    \cup { [status |-> 200, shape |-> sh, close |-> <<>>] :
             sh \in {"falsy", "noClose", "nonArray"} }
    \cup { [status |-> 200, shape |-> "array", close |-> c] : c \in CloseArrays }

\* Price series for the analysis, in hundredths: a shape and a length.  The
\* lengths lie on both sides of the minimum lengths (6, 10, 15) and of the
\* warm-ups of the indicators (10, 14, 20, 27, 30).
SeriesLengths == {5, 6, 9, 10, 14, 15, 16, 21, 28, 31, 36, 41}

SeriesShapes == {"rising", "falling", "flat", "zigzag", "peak", "trough", "rebound",
                 "setback", "plunge", "surge", "calming", "morningStar", "eveningStar"}

PriceAt(shape, n, k) ==
    CASE shape = "rising" -> 2000 + 25 * k
      [] shape = "falling" -> 4000 - 25 * k
      [] shape = "flat" -> 3000
      [] shape = "zigzag" -> IF k % 2 = 0 THEN 3060 ELSE 2940
      [] shape = "peak" -> 3000 + 40 * (IF k < n - 5 THEN k ELSE 2 * (n - 5) - k)
      [] shape = "trough" -> 3000 - 40 * (IF k < n - 5 THEN k ELSE 2 * (n - 5) - k)
      [] shape = "rebound" -> IF k = n THEN 3000 ELSE 3000 - 20 * k
      [] shape = "setback" -> IF k = n THEN 3000 ELSE 3000 + 20 * k
      [] shape = "plunge" -> 4000 - 2 * k * k
      [] shape = "surge" -> 1000 + 2 * k * k
      [] shape = "calming" -> 3000 + (IF k % 2 = 0 THEN 1 ELSE -1)
                                       * (IF k <= n - 20 THEN 200 ELSE 20)
      [] shape = "morningStar" -> IF k = n THEN 3000
                                  ELSE IF k = n - 1 THEN 2910
                                  ELSE IF k = n - 2 THEN 2900
                                  ELSE IF k % 2 = 0 THEN 3020 ELSE 3000
      [] shape = "eveningStar" -> IF k = n THEN 3000
                                  ELSE IF k = n - 1 THEN 3090
                                  ELSE IF k = n - 2 THEN 3100
                                  ELSE IF k % 2 = 0 THEN 2980 ELSE 3000

Series(shape, n) == [k \in 1..n |-> PriceAt(shape, n, k)]

\* A close array with a null in front of the prices.
LeadingNull(c) == <<Null>> \o c

SignalCloseArrays ==
    { Series(shape, n) : shape \in SeriesShapes, n \in SeriesLengths }
    \cup { LeadingNull(Series("rising", n)) : n \in {9, 10} }

\* The responses of the single-caller specification: the failures, and the
\* price series.
SignalResponses ==
    { r \in Responses : r.shape # "array" /\ r.status # 429 }
    \cup { [status |-> 200, shape |-> "array", close |-> c] :
             c \in {<<>>, <<Null, Null>>} \cup SignalCloseArrays }

\* closes.filter(c => c !== null)
FilterNulls(closes) == SelectSeq(closes, LAMBDA c : c # Null)

\* Mutant: an empty or non-array close is returned as an empty series.
TryBody_AcceptEmpty(r) ==
    IF r.status # 200
    THEN [kind |-> "throw", status |-> r.status, responseData |-> FALSE]
    ELSE IF r.shape \in {"falsy", "noClose"}
    THEN [kind |-> "throw", status |-> 0, responseData |-> (r.shape = "noClose")]
    ELSE [kind |-> "return", data |-> FilterNulls(r.close)]

\* The try block after the response arrived (strategy.ts:76-92): a return
\* value or a thrown error.  responseData is TRUE when the error carries a
\* truthy responseData property.
TryBody(r) ==
    IF r.status # 200
    THEN [kind |-> "throw", status |-> r.status, responseData |-> FALSE]
    ELSE IF r.shape \in {"falsy", "noClose"}
    THEN [kind |-> "throw", status |-> 0, responseData |-> (r.shape = "noClose")]
    ELSE IF r.shape = "nonArray" \/ Len(r.close) = 0
    THEN [kind |-> "throw", status |-> 0, responseData |-> FALSE]
    ELSE [kind |-> "return", data |-> FilterNulls(r.close)]

Pow2(n) == IF n = 0 THEN 1 ELSE IF n = 1 THEN 2 ELSE IF n = 2 THEN 4 ELSE 8

\* Mutant: the 429 backoff grows linearly.
RateLimitedBackoff_Linear(n) == Second * n

\* Math.pow(2, retries) * 1000
RateLimitedBackoff(n) == Pow2(n) * Second

\* Mutant: every backoff of the last branch is one second.
LinearBackoff_Constant(n) == Second

\* 1000 * retries
LinearBackoff(n) == Second * n

\* Mutant: a 404 is handled like any other failure.
CatchBlock_Retry404(err, n) ==
    IF err.status = 429 /\ n < MAX_RETRIES
    THEN [do |-> "sleep", ms |-> RateLimitedBackoff(n)]
    ELSE IF n = MAX_RETRIES
    THEN [do |-> "throw", error |-> "FailedAfterRetries",
          responseData |-> err.responseData]
    ELSE [do |-> "sleep", ms |-> LinearBackoff(n)]

\* Mutant: a 429 is backed off after the last attempt too (n <= MAX_RETRIES).
CatchBlock_RetryOnLast(err, n) ==
    IF err.status = 429 /\ n <= MAX_RETRIES
    THEN [do |-> "sleep", ms |-> RateLimitedBackoff(n)]
    ELSE IF err.status = 404
    THEN [do |-> "throw", error |-> "SymbolNotFound", responseData |-> FALSE]
    ELSE IF n = MAX_RETRIES
    THEN [do |-> "throw", error |-> "FailedAfterRetries",
          responseData |-> err.responseData]
    ELSE [do |-> "sleep", ms |-> LinearBackoff(n)]

\* The catch block (strategy.ts:93-125), n = retries after retries++.
CatchBlock(err, n) ==
    IF err.status = 429 /\ n < MAX_RETRIES
    THEN [do |-> "sleep", ms |-> RateLimitedBackoff(n)]
    ELSE IF err.status = 404
    THEN [do |-> "throw", error |-> "SymbolNotFound", responseData |-> FALSE]
    ELSE IF n = MAX_RETRIES
    THEN [do |-> "throw", error |-> "FailedAfterRetries",
          responseData |-> err.responseData]
    ELSE [do |-> "sleep", ms |-> LinearBackoff(n)]

----------------------------------------------------------------------------------------------------------------------------------------------------------------------------------------------------
(* Numbers *)

\* A number x of the program (an IEEE double) is held as the integer
\* x * Scale, truncated: two decimals.  NaN and Infinity are values of their
\* own: a comparison with NaN is false, and NaN propagates through the
\* arithmetic that can meet it.
Scale == 100
NaN == -2000000000
Infinity == 2000000000

isNaN(x) == x = NaN

\* s[i] for a JavaScript index i (from 0).
At(s, i) == s[i + 1]

Abs(x) == IF x < 0 THEN -x ELSE x
Min(a, b) == IF a < b THEN a ELSE b
Max(a, b) == IF a > b THEN a ELSE b

\* a > b, a < b, a >= b, a <= b of two doubles.
GT(a, b) == ~isNaN(a) /\ ~isNaN(b) /\ a > b
LT(a, b) == ~isNaN(a) /\ ~isNaN(b) /\ a < b
GE(a, b) == ~isNaN(a) /\ ~isNaN(b) /\ a >= b
LE(a, b) == ~isNaN(a) /\ ~isNaN(b) /\ a <= b

\* k * (a / b) for an integer k: 0/0 is NaN, x/0 is Infinity (x > 0).
Ratio(k, a, b) ==
    IF isNaN(a) \/ isNaN(b) THEN NaN
    ELSE IF b = 0 THEN (IF a = 0 THEN NaN ELSE Infinity)
    ELSE ((k * a) \div b) * Scale + (((k * a) % b) * Scale) \div b

\* Math.sqrt, rounded down, of a non-negative integer.
RECURSIVE SqrtBetween(_, _, _)
SqrtBetween(n, lo, hi) ==
    IF lo >= hi THEN lo
    ELSE LET mid == (lo + hi + 1) \div 2 IN
         IF mid * mid <= n THEN SqrtBetween(n, mid, hi)
         ELSE SqrtBetween(n, lo, mid - 1)

Sqrt(n) == SqrtBetween(n, 0, 46340)

\* s.slice(lo, hi + 1).reduce((a, b) => a + b, 0).  The sums of this module
\* are taken by halves, which keeps their evaluation shallow; the terms are
\* integers, so the order of the additions does not change the sum.
RECURSIVE Sum(_, _, _)
Sum(s, lo, hi) ==
    IF lo > hi THEN 0
    ELSE IF lo = hi THEN At(s, lo)
    ELSE LET mid == (lo + hi) \div 2
             left == Sum(s, lo, mid)
             right == Sum(s, mid + 1, hi)
         IN IF isNaN(left) \/ isNaN(right) THEN NaN ELSE left + right

----------------------------------------------------------------------------
(* Indicator library, strategy.ts:130-390 *)

calculateSMA(data, period) ==
    [k \in 1..Len(data) |->
        IF k - 1 < period - 1 THEN NaN
        ELSE Sum(data, k - period, k - 1) \div period]

RECURSIVE Gains(_, _, _)
Gains(data, lo, hi) ==
    IF lo > hi THEN 0
    ELSE IF lo = hi
    THEN LET change == At(data, hi) - At(data, hi - 1) IN
         IF change > 0 THEN change ELSE 0
    ELSE LET mid == (lo + hi) \div 2 IN Gains(data, lo, mid) + Gains(data, mid + 1, hi)

RECURSIVE Losses(_, _, _)
Losses(data, lo, hi) ==
    IF lo > hi THEN 0
    ELSE IF lo = hi
    THEN LET change == At(data, hi) - At(data, hi - 1) IN
         IF change > 0 THEN 0 ELSE -change
    ELSE LET mid == (lo + hi) \div 2 IN Losses(data, lo, mid) + Losses(data, mid + 1, hi)

calculateRSI(data, period) ==
    [k \in 1..Len(data) |->
        LET i == k - 1 IN
        IF i < period THEN NaN
        ELSE LET gains == Gains(data, i - period + 1, i)
                 losses == Losses(data, i - period + 1, i)
                 rs == IF losses = 0 THEN 100 * Scale
                       ELSE IF gains = 0 THEN 0
                       ELSE (gains * Scale) \div losses
             IN 100 * Scale - (100 * Scale * Scale) \div (Scale + rs)]

\* sum of Math.pow(data[j] - m, 2) for j in lo..hi, in units of 1/Scale^2
RECURSIVE SumSquares(_, _, _, _)
SumSquares(data, lo, hi, m) ==
    IF lo > hi THEN 0
    ELSE IF lo = hi THEN (At(data, hi) - m) * (At(data, hi) - m)
    ELSE LET mid == (lo + hi) \div 2 IN
         SumSquares(data, lo, mid, m) + SumSquares(data, mid + 1, hi, m)

calculateBollingerBands(data, period, stdDev) ==
    LET middle == calculateSMA(data, period)
        sd(i) == Sqrt(SumSquares(data, Max(0, i - period + 1), i, At(middle, i))
                        \div period)
    IN [middle |-> middle,
        upper |-> [k \in 1..Len(data) |->
                     IF isNaN(middle[k]) THEN NaN ELSE middle[k] + stdDev * sd(k - 1)],
        lower |-> [k \in 1..Len(data) |->
                     IF isNaN(middle[k]) THEN NaN ELSE middle[k] - stdDev * sd(k - 1)]]

\* The sequence f held as an array, its elements computed once.
AsArray(f) == SubSeq(f, 1, Len(f))

TrueRange(high, low, close) ==
    [k \in 1..Len(close) |->
        IF k = 1 THEN high[1] - low[1]
        ELSE Max(high[k] - low[k],
                 Max(Abs(high[k] - close[k - 1]), Abs(low[k] - close[k - 1])))]

PlusDM(high, low) ==
    [k \in 1..Len(high) |->
        IF k = 1 THEN 0
        ELSE LET upMove == high[k] - high[k - 1]
                 downMove == low[k - 1] - low[k]
             IN IF upMove > downMove /\ upMove > 0 THEN upMove ELSE 0]

MinusDM(high, low) ==
    [k \in 1..Len(high) |->
        IF k = 1 THEN 0
        ELSE LET upMove == high[k] - high[k - 1]
                 downMove == low[k - 1] - low[k]
             IN IF downMove > upMove /\ downMove > 0 THEN downMove ELSE 0]

\* prev - prev / period + current
WilderNext(prev, period, current) == prev - prev \div period + current

\* The smoothing steps of the indexes lo..hi applied to the smoothed value v,
\* the first half of the steps before the second.
RECURSIVE WilderSteps(_, _, _, _, _)
WilderSteps(x, period, v, lo, hi) ==
    IF lo > hi THEN v
    ELSE IF lo = hi THEN WilderNext(v, period, At(x, lo))
    ELSE LET mid == (lo + hi) \div 2
             half == WilderSteps(x, period, v, lo, mid)
         IN IF isNaN(half) THEN NaN ELSE WilderSteps(x, period, half, mid + 1, hi)

\* Wilder's smoothing of x at index i (strategy.ts:259-277).
WilderSmooth(x, period, i) ==
    IF i < period THEN NaN
    ELSE LET first == Sum(x, 1, period) IN
         IF isNaN(first) THEN NaN ELSE WilderSteps(x, period, first, period + 1, i)

\* 100 * (val / smoothTR[i])
DirectionalIndex(smoothDM, smoothTR) ==
    IF isNaN(smoothDM) \/ isNaN(smoothTR) THEN NaN
    ELSE Ratio(100, smoothDM, smoothTR)

\* 100 * (Math.abs(val - nDI[i]) / (val + nDI[i]))
DirectionalMovementIndex(pDI, nDI) ==
    IF isNaN(pDI) \/ isNaN(nDI) THEN NaN
    ELSE Ratio(100, Abs(pDI - nDI), pDI + nDI)

\* (adx[i - 1] * (period - 1) + dx[i]) / period
AdxNext(prev, period, dx) ==
    IF isNaN(prev) \/ isNaN(dx) THEN NaN ELSE (prev * (period - 1) + dx) \div period

\* The steps of the indexes lo..hi applied to the ADX value v, the first half
\* of the steps before the second.
RECURSIVE AdxSteps(_, _, _, _, _)
AdxSteps(dx, period, v, lo, hi) ==
    IF lo > hi THEN v
    ELSE IF lo = hi THEN AdxNext(v, period, At(dx, lo))
    ELSE LET mid == (lo + hi) \div 2
             half == AdxSteps(dx, period, v, lo, mid)
         IN IF isNaN(half) THEN NaN ELSE AdxSteps(dx, period, half, mid + 1, hi)

AdxAt(dx, period, i) ==
    IF i < period * 2 - 1 THEN NaN
    ELSE LET total == Sum(dx, period, period * 2 - 1) IN
         IF isNaN(total) THEN NaN
         ELSE AdxSteps(dx, period, total \div period, period * 2, i)

calculateADX(high, low, close, period) ==
    LET tr == AsArray(TrueRange(high, low, close))
        pDM == AsArray(PlusDM(high, low))
        nDM == AsArray(MinusDM(high, low))
        idx == 1..Len(close)
        smoothTR == AsArray([k \in idx |-> WilderSmooth(tr, period, k - 1)])
        smoothPDM == AsArray([k \in idx |-> WilderSmooth(pDM, period, k - 1)])
        smoothNDM == AsArray([k \in idx |-> WilderSmooth(nDM, period, k - 1)])
        pDI == AsArray([k \in idx |-> DirectionalIndex(smoothPDM[k], smoothTR[k])])
        nDI == AsArray([k \in idx |-> DirectionalIndex(smoothNDM[k], smoothTR[k])])
        dx == AsArray([k \in idx |-> DirectionalMovementIndex(pDI[k], nDI[k])])
    IN [adx |-> [k \in idx |-> AdxAt(dx, period, k - 1)], pdi |-> pDI, ndi |-> nDI]

\* The two flags of identifyPatterns at index i (strategy.ts:321-387).
identifyPatterns(open, high, low, close, i) ==
    IF i < 2 THEN [bullish |-> FALSE, bearish |-> FALSE]
    ELSE
    LET o(n) == At(open, n)
        c(n) == At(close, n)
        bodySize == Abs(c(i) - o(i))
        upperShadow == At(high, i) - Max(o(i), c(i))
        lowerShadow == Min(o(i), c(i)) - At(low, i)
        prevBodySize == Abs(c(i - 1) - o(i - 1))
        bullishEngulfing ==
            c(i) > o(i) /\ o(i - 1) > c(i - 1) /\ o(i) <= c(i - 1) /\ c(i) >= o(i - 1)
        hammer ==
            /\ lowerShadow > bodySize * 2
            /\ upperShadow * 2 < bodySize
            /\ c(i - 1) < o(i - 1)
            /\ c(i - 2) < o(i - 2)
        morningStar ==
            /\ i >= 3
            /\ o(i - 2) > c(i - 2)
            /\ Abs(o(i - 1) - c(i - 1)) * 10 < prevBodySize * 3
            /\ c(i) > o(i)
            /\ c(i) * 2 > o(i - 2) + c(i - 2)
        bearishEngulfing ==
            c(i) < o(i) /\ o(i - 1) < c(i - 1) /\ o(i) >= c(i - 1) /\ c(i) <= o(i - 1)
        shootingStar ==
            /\ upperShadow > bodySize * 2
            /\ lowerShadow * 2 < bodySize
            /\ c(i - 1) > o(i - 1)
            /\ c(i - 2) > o(i - 2)
        eveningStar ==
            /\ i >= 3
            /\ o(i - 2) < c(i - 2)
            /\ Abs(o(i - 1) - c(i - 1)) * 10 < prevBodySize * 3
            /\ c(i) < o(i)
            /\ c(i) * 2 < o(i - 2) + c(i - 2)
    IN [bullish |-> bullishEngulfing \/ hammer \/ morningStar,
        bearish |-> bearishEngulfing \/ shootingStar \/ eveningStar]

----------------------------------------------------------------------------
(* getSignal, strategy.ts:392-710 *)

\* Mutant: the minimums of the intervals are ignored (always 10).
requiredDataPoints_AlwaysTen(iv) == 10

\* minDataPoints[interval] || 10
requiredDataPoints(iv) ==
    CASE iv = "1d" -> 15
      [] iv = "1wk" -> 10
      [] iv = "1mo" -> 6
      [] OTHER -> 10

\* The outcomes of the Math.random() calls of one getSignal call, as a rule
\* giving the values drawn for bar i, in hundredths (0..99): one for the
\* high and one for the low.
Jitters == {"zero", "half", "narrowing", "alternating", "highOnly", "lowOnly"}

RandomHigh(j, i) ==
    CASE j = "zero" -> 0
      [] j = "half" -> 50
      [] j = "narrowing" -> Max(0, 90 - 3 * i)
      [] j = "alternating" -> IF i % 2 = 0 THEN 20 ELSE 80
      [] j = "highOnly" -> 90
      [] j = "lowOnly" -> 0

RandomLow(j, i) ==
    CASE j = "zero" -> 0
      [] j = "half" -> 50
      [] j = "narrowing" -> Max(0, 90 - 3 * i)
      [] j = "alternating" -> IF i % 2 = 0 THEN 80 ELSE 20
      [] j = "highOnly" -> 0
      [] j = "lowOnly" -> 90

\* The jitter moves a price by less than one percent, so the bars are held
\* Fine times finer than the prices: in 1 / (Scale * Fine).
Fine == 100

\* The closes, as the bars hold them.
FineClose(data) == [k \in 1..Len(data) |-> data[k] * Fine]

\* price * (1 + 0.01 * Math.random())
SyntheticHigh(data, j) ==
    [k \in 1..Len(data) |->
        data[k] * Fine + (data[k] * RandomHigh(j, k - 1) * Fine) \div 10000]

\* price * (1 - 0.01 * Math.random())
SyntheticLow(data, j) ==
    [k \in 1..Len(data) |->
        data[k] * Fine - (data[k] * RandomLow(j, k - 1) * Fine) \div 10000]

\* i > 0 ? data[i - 1] : price
SyntheticOpen(data) ==
    [k \in 1..Len(data) |-> IF k > 1 THEN data[k - 1] ELSE data[k]]

\* s[i] for the indexes the scoring reads, which lie below the length: an
\* index below 0 reads undefined, which behaves as NaN in every comparison
\* the code makes.
AtOrNaN(s, i) == IF i >= 0 THEN At(s, i) ELSE NaN

\* The days between period1 and period2 of the query, strategy.ts:31-47.
QueryWindowDays(iv) ==
    CASE iv = "1d" -> 90
      [] iv = "1wk" -> 365
      [] iv = "1mo" -> 5 * 365
      [] OTHER -> 30

\* strategy.ts:423-424
smaShortPeriod(iv) == IF iv = "1d" THEN 50 ELSE 10

\* strategy.ts:425-426
smaLongPeriod(iv) == IF iv = "1d" THEN 200 ELSE 30

\* The indicator values the scoring reads, strategy.ts:416-434.
Indicators(data, iv, j) ==
    LET i == Len(data) - 1
        close == AsArray(FineClose(data))
        high == AsArray(SyntheticHigh(data, j))
        low == AsArray(SyntheticLow(data, j))
        open == AsArray(SyntheticOpen(close))
        smaShort == calculateSMA(data, smaShortPeriod(iv))
        smaLong == calculateSMA(data, smaLongPeriod(iv))
        rsi == calculateRSI(data, 14)
        bollingerBands == calculateBollingerBands(data, 20, 2)
        adxData == calculateADX(high, low, close, 14)
        patterns == identifyPatterns(open, high, low, close, i)
    IN [i |-> i,
        price |-> At(data, i),
        smaShort |-> At(smaShort, i),
        smaLong |-> At(smaLong, i),
        smaShortPrev |-> AtOrNaN(smaShort, i - 1),
        smaLongPrev |-> AtOrNaN(smaLong, i - 1),
        smaShortBack3 |-> AtOrNaN(smaShort, i - 3),
        rsi |-> At(rsi, i),
        rsiPrev |-> AtOrNaN(rsi, i - 1),
        middle |-> At(bollingerBands.middle, i),
        upper |-> At(bollingerBands.upper, i),
        lower |-> At(bollingerBands.lower, i),
        middleBack20 |-> AtOrNaN(bollingerBands.middle, i - 20),
        upperBack20 |-> AtOrNaN(bollingerBands.upper, i - 20),
        lowerBack20 |-> AtOrNaN(bollingerBands.lower, i - 20),
        adx |-> At(adxData.adx, i),
        pdi |-> At(adxData.pdi, i),
        ndi |-> At(adxData.ndi, i),
        bullishPattern |-> patterns.bullish,
        bearishPattern |-> patterns.bearish]

\* The value of every field before the indicators are computed.
NotComputed ==
    [i |-> 0, price |-> NaN, smaShort |-> NaN, smaLong |-> NaN, smaShortPrev |-> NaN,
     smaLongPrev |-> NaN, smaShortBack3 |-> NaN, rsi |-> NaN, rsiPrev |-> NaN,
     middle |-> NaN, upper |-> NaN, lower |-> NaN, middleBack20 |-> NaN,
     upperBack20 |-> NaN, lowerBack20 |-> NaN, adx |-> NaN, pdi |-> NaN, ndi |-> NaN,
     bullishPattern |-> FALSE, bearishPattern |-> FALSE]

\* Weight factors, strategy.ts:442-448.
weights == [trend |-> 35, momentum |-> 20, volatility |-> 15, adx |-> 10, patterns |-> 20]

\* weight * (0.7 + (0.3 * level) / 100), level a number in 0..100
Graded(weight, level) == (weight * (70 * Scale + (30 * level) \div 100)) \div 100

\* Mutant: the fraction is taken in fifths, so that 0.7 of a weight is 1.4.
Part_Fifths(weight, tenths) == (weight * Scale * tenths) \div 5

\* weight * f for f = tenths / 10
Part(weight, tenths) == (weight * Scale * tenths) \div 10

Score(total, bullish, bearish) == [total |-> total, bullish |-> bullish, bearish |-> bearish]

\* 1. Trend analysis (SMA crossover), strategy.ts:450-484.
TrendScore(x) ==
    IF isNaN(x.smaShort) \/ isNaN(x.smaLong) THEN Score(0, 0, 0)
    ELSE IF x.smaShort > x.smaLong
    THEN IF x.i > 1 /\ LE(x.smaShortPrev, x.smaLongPrev)
         THEN Score(weights.trend, weights.trend * Scale, 0)
         ELSE LET trendStrength ==
                    Min(100 * Scale, Ratio(1000, x.smaShort - x.smaLong, x.smaLong))
              IN Score(weights.trend, Graded(weights.trend, trendStrength), 0)
    ELSE IF x.smaShort < x.smaLong
    THEN IF x.i > 1 /\ GE(x.smaShortPrev, x.smaLongPrev)
         THEN Score(weights.trend, 0, weights.trend * Scale)
         ELSE LET trendStrength ==
                    Min(100 * Scale, Ratio(1000, x.smaLong - x.smaShort, x.smaShort))
              IN Score(weights.trend, 0, Graded(weights.trend, trendStrength))
    ELSE Score(weights.trend, 0, 0)

\* 2. Momentum analysis (RSI), strategy.ts:486-510.
MomentumScore(x) ==
    IF isNaN(x.rsi) THEN Score(0, 0, 0)
    ELSE IF x.rsi > 70 * Scale
    THEN LET overboughtLevel == Min(100 * Scale, ((x.rsi - 70 * Scale) * 100) \div 30)
         IN Score(weights.momentum, 0, Graded(weights.momentum, overboughtLevel))
    ELSE IF x.rsi < 30 * Scale
    THEN LET oversoldLevel == Min(100 * Scale, ((30 * Scale - x.rsi) * 100) \div 30)
         IN Score(weights.momentum, Graded(weights.momentum, oversoldLevel), 0)
    ELSE IF x.rsi >= 30 * Scale /\ x.rsi < 50 * Scale /\ x.i > 0 /\ GT(x.rsi, x.rsiPrev)
    THEN Score(weights.momentum, Part(weights.momentum, 7), 0)
    ELSE IF x.rsi > 50 * Scale /\ x.rsi <= 70 * Scale /\ x.i > 0 /\ LT(x.rsi, x.rsiPrev)
    THEN Score(weights.momentum, 0, Part(weights.momentum, 7))
    ELSE Score(weights.momentum, 0, 0)

\* (upper - lower) / middle, in units of 1/Scale^2
BandWidth(upper, lower, middle) ==
    IF isNaN(upper) \/ isNaN(lower) \/ isNaN(middle) THEN NaN
    ELSE ((upper - lower) * Scale * Scale) \div middle

\* 3. Volatility analysis (Bollinger Bands), strategy.ts:512-562.
VolatilityScore(x) ==
    IF isNaN(x.upper) \/ isNaN(x.lower) THEN Score(0, 0, 0)
    ELSE
    LET w == weights.volatility
        nearUpper == x.price > x.middle + (85 * (x.upper - x.middle)) \div 100
        nearLower == x.price < x.middle - (85 * (x.middle - x.lower)) \div 100
        band == IF nearUpper
                THEN IF GT(x.rsi, 65 * Scale) THEN Score(w, 0, Part(w, 8))
                     ELSE Score(w, Part(w, 4), 0)
                ELSE IF nearLower
                THEN IF LT(x.rsi, 35 * Scale) THEN Score(w, Part(w, 8), 0)
                     ELSE Score(w, 0, Part(w, 4))
                ELSE Score(w, 0, 0)
        bandWidth == BandWidth(x.upper, x.lower, x.middle)
        prevBandWidth == BandWidth(x.upperBack20, x.lowerBack20, x.middleBack20)
        narrowing == x.i > 20 /\ ~isNaN(prevBandWidth) /\ bandWidth * 10 < prevBandWidth * 7
    IN IF narrowing
       THEN IF GT(x.smaShort, x.smaShortBack3)
            THEN Score(w, band.bullish + Part(w, 2), band.bearish)
            ELSE Score(w, band.bullish, band.bearish + Part(w, 2))
       ELSE band

\* 4. ADX analysis (trend strength), strategy.ts:564-585.
AdxScore(x) ==
    IF isNaN(x.adx) \/ isNaN(x.pdi) \/ isNaN(x.ndi) THEN Score(0, 0, 0)
    ELSE IF x.adx > 25 * Scale
    THEN LET trendStrength == Min(Scale, (x.adx - 25 * Scale) \div 25) IN
         IF x.pdi > x.ndi THEN Score(weights.adx, weights.adx * trendStrength, 0)
         ELSE IF x.ndi > x.pdi THEN Score(weights.adx, 0, weights.adx * trendStrength)
         ELSE Score(weights.adx, 0, 0)
    ELSE Score(weights.adx, 0, 0)

\* 5. Candlestick pattern analysis, strategy.ts:587-598.
PatternScore(x) ==
    IF x.bullishPattern \/ x.bearishPattern
    THEN Score(weights.patterns,
               IF x.bullishPattern THEN weights.patterns * Scale ELSE 0,
               IF x.bearishPattern THEN weights.patterns * Scale ELSE 0)
    ELSE Score(0, 0, 0)

\* The accumulators before normalisation, strategy.ts:436-598.
RawScores(x) ==
    LET parts == <<TrendScore(x), MomentumScore(x), VolatilityScore(x), AdxScore(x),
                   PatternScore(x)>>
    IN Score(parts[1].total + parts[2].total + parts[3].total + parts[4].total
               + parts[5].total,
             parts[1].bullish + parts[2].bullish + parts[3].bullish + parts[4].bullish
               + parts[5].bullish,
             parts[1].bearish + parts[2].bearish + parts[3].bearish + parts[4].bearish
               + parts[5].bearish)

\* (signals / totalSignals) * 100 when totalSignals > 0, strategy.ts:600-604.
Normalize(raw) ==
    IF raw.total > 0
    THEN Score(raw.total, (raw.bullish * 100) \div raw.total,
               (raw.bearish * 100) \div raw.total)
    ELSE raw

\* Mutant: the highest tier starts at 80.
confidenceLevel_HighAtEighty(bullishSignals, bearishSignals) ==
    LET totalStrength == Max(bullishSignals, bearishSignals) IN
    IF totalStrength >= 80 * Scale THEN "ALTA"
    ELSE IF totalStrength >= 40 * Scale THEN "MEDIA"
    ELSE "BAJA"

\* strategy.ts:642-645
confidenceLevel(bullishSignals, bearishSignals) ==
    LET totalStrength == Max(bullishSignals, bearishSignals) IN
    IF totalStrength >= 70 * Scale THEN "ALTA"
    ELSE IF totalStrength >= 40 * Scale THEN "MEDIA"
    ELSE "BAJA"

minIndicatorsNeeded == 3

\* strategy.ts:652-658
validIndicatorsCount(x) ==
    (IF ~isNaN(x.smaShort) /\ ~isNaN(x.smaLong) THEN 1 ELSE 0)
    + (IF ~isNaN(x.rsi) THEN 1 ELSE 0)
    + (IF ~isNaN(x.upper) /\ ~isNaN(x.lower) THEN 1 ELSE 0)
    + (IF ~isNaN(x.adx) THEN 1 ELSE 0)

\* Mutant: two valid indicators are enough.
Classify_TwoSuffice(x, bullishSignals, bearishSignals) ==
    IF validIndicatorsCount(x) < 2 THEN "InsufficientIndicators"
    ELSE IF bullishSignals > bearishSignals + 10 * Scale
    THEN IF GT(x.smaShort, x.smaLong) \/ (LT(x.rsi, 50 * Scale) /\ ~isNaN(x.rsi))
         THEN IF bullishSignals > 70 * Scale THEN "StrongBuy" ELSE "Buy"
         ELSE "Mixed"
    ELSE IF bearishSignals > bullishSignals + 10 * Scale
    THEN IF LT(x.smaShort, x.smaLong) \/ (GT(x.rsi, 50 * Scale) /\ ~isNaN(x.rsi))
         THEN IF bearishSignals > 70 * Scale THEN "StrongSell" ELSE "Sell"
         ELSE "Mixed"
    ELSE "NoClear"

\* Mutant: a lead of exactly 10 points counts as a lead.
Classify_LeadAtTen(x, bullishSignals, bearishSignals) ==
    IF validIndicatorsCount(x) < 3 THEN "InsufficientIndicators"
    ELSE IF bullishSignals >= bearishSignals + 10 * Scale
    THEN IF GT(x.smaShort, x.smaLong) \/ (LT(x.rsi, 50 * Scale) /\ ~isNaN(x.rsi))
         THEN IF bullishSignals > 70 * Scale THEN "StrongBuy" ELSE "Buy"
         ELSE "Mixed"
    ELSE IF bearishSignals >= bullishSignals + 10 * Scale
    THEN IF LT(x.smaShort, x.smaLong) \/ (GT(x.rsi, 50 * Scale) /\ ~isNaN(x.rsi))
         THEN IF bearishSignals > 70 * Scale THEN "StrongSell" ELSE "Sell"
         ELSE "Mixed"
    ELSE "NoClear"

\* The signal text chosen, strategy.ts:660-694.
Classify(x, bullishSignals, bearishSignals) ==
    IF validIndicatorsCount(x) < minIndicatorsNeeded THEN "InsufficientIndicators"
    ELSE IF bullishSignals > bearishSignals + 10 * Scale
    THEN IF GT(x.smaShort, x.smaLong) \/ (LT(x.rsi, 50 * Scale) /\ ~isNaN(x.rsi))
         THEN IF bullishSignals > 70 * Scale THEN "StrongBuy" ELSE "Buy"
         ELSE "Mixed"
    ELSE IF bearishSignals > bullishSignals + 10 * Scale
    THEN IF LT(x.smaShort, x.smaLong) \/ (GT(x.rsi, 50 * Scale) /\ ~isNaN(x.rsi))
         THEN IF bearishSignals > 70 * Scale THEN "StrongSell" ELSE "Sell"
         ELSE "Mixed"
    ELSE "NoClear"

\* What getSignal hands to its caller: a text (kind "text") or an exception
\* (kind "thrown").  The text is held as its parts.
Result(kind, label, required, x, raw, scores, confidence) ==
    [kind |-> kind, label |-> label, required |-> required, ind |-> x,
     totalSignals |-> raw.total, rawBullish |-> raw.bullish, rawBearish |-> raw.bearish,
     bullishSignals |-> scores.bullish, bearishSignals |-> scores.bearish,
     confidence |-> confidence, message |-> "none"]

Pending == Result("pending", "none", 0, NotComputed, Score(0, 0, 0), Score(0, 0, 0), "none")

\* Mutant: the failure of the fetch is not caught.
CatchAll_Rethrow(error) ==
    [Result("thrown", "none", 0, NotComputed, Score(0, 0, 0), Score(0, 0, 0), "none")
       EXCEPT !.message = error]

\* catch (error) { return `Error al analizar ...` }, strategy.ts:707-709
CatchAll(error) ==
    [Result("text", "ErrorAlAnalizar", 0, NotComputed, Score(0, 0, 0), Score(0, 0, 0),
            "none")
       EXCEPT !.message = error]

\* The signal text for the two normalized scores, strategy.ts:642-704.
Conclude(x, required, raw, scores) ==
    Result("text", Classify(x, scores.bullish, scores.bearish), required, x, raw,
           scores, confidenceLevel(scores.bullish, scores.bearish))

\* From the indicator values x to the signal text, strategy.ts:436-706.
Aggregate(x, required) == Conclude(x, required, RawScores(x), Normalize(RawScores(x)))

\* The try block from the indicators on, strategy.ts:416-706.
Evaluate(data, iv, j) == Aggregate(Indicators(data, iv, j), requiredDataPoints(iv))

\* The body of the try block once the data is there, strategy.ts:400-706.
Analyse(data, iv, j) ==
    IF Len(data) < requiredDataPoints(iv)
    THEN Result("text", "InsufficientData", requiredDataPoints(iv), NotComputed,
                Score(0, 0, 0), Score(0, 0, 0), "none")
    ELSE Evaluate(data, iv, j)

\* getSignal, given how getHistoricalData ended.
getSignal(outcome, iv, j) ==
    IF outcome.kind = "error" THEN CatchAll(outcome.error)
    ELSE Analyse(outcome.data, iv, j)

----------------
(* Rate limiting *)

\* Mutant: the call never sleeps.
RateLimitSleepMs_NoWait(t, last) == 0

\* waitForRateLimit, lines 13-17: how long the call sleeps (0: not at all).
RateLimitSleepMs(t, last) ==
    IF t - last < RATE_LIMIT_DELAY THEN RATE_LIMIT_DELAY - (t - last) ELSE 0

LastTwo(s) == IF Len(s) > 2 THEN SubSeq(s, Len(s) - 1, Len(s)) ELSE s

\* lastRequestTime = Date.now() (line 18) and axios.get (line 76), which run
\* without another macrotask in between.
SendRequest(p) ==
    /\ lastRequestTime' = now
    /\ sends' = LastTwo(Append(sends, now))
    /\ pc' = [pc EXCEPT ![p] = "request"]
    /\ wakeAt' = [wakeAt EXCEPT ![p] = 0]
    /\ failedAt' = [failedAt EXCEPT ![p] = 0]

\* The head of the while loop with retries < MAX_RETRIES: the synchronous
\* part of waitForRateLimit, then either the sleep or the request.
EnterAttempt(p) ==
    LET ms == RateLimitSleepMs(now, lastRequestTime) IN
    IF ms > 0
    THEN /\ pc' = [pc EXCEPT ![p] = "rateLimitSleep"]
         /\ wakeAt' = [wakeAt EXCEPT ![p] = now + ms]
         /\ UNCHANGED <<lastRequestTime, sends, failedAt>>
    ELSE SendRequest(p)

FetchActive == {"rateLimitSleep", "request", "backoffSleep"}

\* A caller is in the chain of continuations that follows the settling of
\* its fetch (getSignal's await at strategy.ts:398, the handler's at
\* index.ts:19).  The chain runs to its end before any timer, response or
\* incoming request is handled.
Continuing == \E p \in Callers : pc[p] \in {"fetched", "done"}

NoResponse == [status |-> 0, shape |-> "none", close |-> <<>>]

\* The branch of the catch block a status selects.
Caught(status) == IF status \in {404, 429} THEN status ELSE 0

----------------------------------------------------------------------------
(* Actions *)

Init ==
    /\ now = StartTime
    /\ lastRequestTime = 0
    /\ pc = [p \in Callers |-> "idle"]
    /\ interval = [p \in Callers |-> "none"]
    /\ retries = [p \in Callers |-> 0]
    /\ wakeAt = [p \in Callers |-> 0]
    /\ failedAt = [p \in Callers |-> 0]
    /\ attempts = [p \in Callers |-> <<>>]
    /\ resp = [p \in Callers |-> NoResponse]
    /\ fetched = [p \in Callers |-> [kind |-> "pending"]]
    /\ signal = [p \in Callers |-> Pending]
    /\ sends = <<>>
    /\ overlap = FALSE

Tick ==
    /\ ~Continuing
    /\ now < StartTime + MaxTicks * Second
    /\ \A p \in Callers : pc[p] \in {"rateLimitSleep", "backoffSleep"}
                             => now < wakeAt[p] + MaxLate * Second
    /\ now' = now + Second
    /\ UNCHANGED <<lastRequestTime, pc, interval, retries, wakeAt, failedAt,
                   attempts, resp, fetched, signal, sends, overlap>>

\* The route handler calls getSignal(symbol, iv) (index.ts:19), which calls
\* getHistoricalData, which runs to its first await.
Call(p, ivs) ==
    /\ ~Continuing
    /\ pc[p] = "idle"
    /\ \E iv \in ivs : interval' = [interval EXCEPT ![p] = iv]
    /\ overlap' = (overlap \/ \E q \in Callers \ {p} : pc[q] \in FetchActive)
    /\ EnterAttempt(p)
    /\ UNCHANGED <<now, retries, attempts, resp, fetched, signal>>

\* The sleep of waitForRateLimit is over.
RateLimitWake(p) ==
    /\ ~Continuing
    /\ pc[p] = "rateLimitSleep"
    /\ now >= wakeAt[p]
    /\ SendRequest(p)
    /\ UNCHANGED <<now, interval, retries, attempts, resp, fetched, signal, overlap>>

\* axios.get settles with r: the rest of the try block, and the catch block
\* up to its sleep or throw.
Response(p, rs) ==
    /\ ~Continuing
    /\ pc[p] = "request"
    /\ \E r \in rs :
         LET t == TryBody(r)
             n == retries[p] + 1
             c == CatchBlock(t, n)
         IN
         IF t.kind = "return"
         THEN /\ fetched' = [fetched EXCEPT ![p] = [kind |-> "data", data |-> t.data]]
              /\ attempts' = [attempts EXCEPT
                                ![p] = Append(@, [status |-> 200, backoff |-> 0])]
              /\ resp' = [resp EXCEPT ![p] = r]
              /\ pc' = [pc EXCEPT ![p] = "fetched"]
              /\ UNCHANGED <<retries, wakeAt, failedAt>>
         ELSE /\ retries' = [retries EXCEPT ![p] = n]
              /\ IF c.do = "sleep"
                 THEN /\ attempts' = [attempts EXCEPT ![p] =
                            Append(@, [status |-> Caught(t.status), backoff |-> c.ms])]
                      /\ wakeAt' = [wakeAt EXCEPT ![p] = now + c.ms]
                      /\ failedAt' = [failedAt EXCEPT ![p] = now]
                      /\ pc' = [pc EXCEPT ![p] = "backoffSleep"]
                      /\ resp' = [resp EXCEPT ![p] = r]
                      /\ UNCHANGED fetched
                 ELSE /\ attempts' = [attempts EXCEPT ![p] =
                            Append(@, [status |-> Caught(t.status), backoff |-> 0])]
                      /\ fetched' = [fetched EXCEPT
                                       ![p] = [kind |-> "error", error |-> c.error,
                                               responseData |-> c.responseData]]
                      /\ resp' = [resp EXCEPT ![p] = r]
                      /\ pc' = [pc EXCEPT ![p] = "fetched"]
                      /\ UNCHANGED <<wakeAt, failedAt>>
    /\ UNCHANGED <<now, lastRequestTime, interval, signal, sends, overlap>>

\* The backoff sleep of the catch block is over: back to the loop head.
BackoffWake(p) ==
    /\ ~Continuing
    /\ pc[p] = "backoffSleep"
    /\ now >= wakeAt[p]
    /\ IF retries[p] < MAX_RETRIES
       THEN /\ EnterAttempt(p)
            /\ resp' = [resp EXCEPT ![p] = NoResponse]
            /\ UNCHANGED fetched
       ELSE /\ fetched' = [fetched EXCEPT
                             ![p] = [kind |-> "error", error |-> "MaximumRetriesExceeded",
                                     responseData |-> FALSE]]
            /\ pc' = [pc EXCEPT ![p] = "fetched"]
            /\ UNCHANGED <<lastRequestTime, sends, wakeAt, failedAt, resp>>
    /\ UNCHANGED <<now, interval, retries, attempts, signal, overlap>>

\* getSignal resumes after await getHistoricalData (strategy.ts:398) and
\* runs to its end; j is how its Math.random() calls turn out.
Resume(p) ==
    /\ pc[p] = "fetched"
    /\ pc' = [pc EXCEPT ![p] = "done"]
    /\ \E j \in Jitters :
         signal' = [signal EXCEPT ![p] = getSignal(fetched[p], interval[p], j)]
    /\ UNCHANGED <<now, lastRequestTime, interval, retries, wakeAt, failedAt,
                   attempts, resp, fetched, sends, overlap>>

\* The route handler returns the JSON answer (index.ts:23); everything the
\* request held is dropped.
Deliver(p) ==
    /\ pc[p] = "done"
    /\ pc' = [pc EXCEPT ![p] = "idle"]
    /\ interval' = [interval EXCEPT ![p] = "none"]
    /\ retries' = [retries EXCEPT ![p] = 0]
    /\ attempts' = [attempts EXCEPT ![p] = <<>>]
    /\ resp' = [resp EXCEPT ![p] = NoResponse]
    /\ fetched' = [fetched EXCEPT ![p] = [kind |-> "pending"]]
    /\ signal' = [signal EXCEPT ![p] = Pending]
    /\ UNCHANGED <<now, lastRequestTime, wakeAt, failedAt, sends, overlap>>

Next ==
    \/ Tick
    \/ \E p \in Callers : Call(p, ServerIntervals)
    \/ \E p \in Callers : RateLimitWake(p)
    \/ \E p \in Callers : Response(p, Responses)
    \/ \E p \in Callers : BackoffWake(p)
    \/ \E p \in Callers : Resume(p)
    \/ \E p \in Callers : Deliver(p)

Spec == Init /\ [][Next]_vars

\* The first request a process serves, with every interval and the price
\* series of the analysis.  The request comes in at the start and the
\* provider answers at once: time passes only while the caller sleeps.
Analyst == 1

NextSignal ==
    \/ pc[Analyst] \in {"rateLimitSleep", "backoffSleep"} /\ Tick
    \/ sends = <<>> /\ Call(Analyst, Intervals)
    \/ RateLimitWake(Analyst)
    \/ Response(Analyst, SignalResponses)
    \/ BackoffWake(Analyst)
    \/ Resume(Analyst)
    \/ Deliver(Analyst)

SignalSpec == Init /\ [][NextSignal]_vars

----------------------------------------------------------------------------
(* The aggregation on its own *)

\* Indicator values at the latest index, by category.  NaN marks what is
\* still inside its warm-up.

\* <<smaShort[i], smaLong[i], smaShort[i - 1], smaLong[i - 1], smaShort[i - 3]>>
TrendSamples ==
    { <<NaN, NaN, NaN, NaN, NaN>>,
      <<3000, NaN, 2990, NaN, 2970>>,
      <<3100, 3000, 3090, 2995, 3070>>,
      <<3400, 3000, 3390, 2995, 3370>>,
      <<3010, 3000, 2990, 2995, 2980>>,
      <<2900, 3000, 2910, 3005, 2930>>,
      <<2990, 3000, 3010, 3005, 3020>>,
      <<3000, 3000, 3000, 3000, 3000>> }

\* <<rsi[i], rsi[i - 1]>>
RsiSamples ==
    { <<NaN, NaN>>, <<8500, 8000>>, <<9901, 9901>>, <<2000, 2500>>, <<0, 0>>,
      <<4000, 3500>>, <<4000, 4500>>, <<6000, 6500>>, <<6000, 5500>>, <<5000, 5000>> }

\* <<data[i], middle[i], upper[i], lower[i]>>
BandSamples ==
    { <<3000, NaN, NaN, NaN>>, <<3190, 3000, 3200, 2800>>, <<2810, 3000, 3200, 2800>>,
      <<3000, 3000, 3200, 2800>> }

\* <<middle[i - 20], upper[i - 20], lower[i - 20]>>
EarlierBandSamples == { <<NaN, NaN, NaN>>, <<3000, 3400, 2600>>, <<3000, 3200, 2800>> }

\* <<adx[i], pdi[i], ndi[i]>>
AdxSamples ==
    { <<NaN, NaN, NaN>>, <<NaN, 0, 0>>, <<4000, 3000, 1000>>, <<4000, 1000, 3000>>,
      <<2000, 3000, 1000>>, <<6000, 2000, 2000>>, <<10000, 8000, 0>> }

\* The latest index of the samples: past every warm-up but that of the
\* daily moving averages.
SampleIndex == 30

Snapshot(t, r, b, e, a, bullish, bearish) ==
    [i |-> SampleIndex, price |-> b[1],
     smaShort |-> t[1], smaLong |-> t[2], smaShortPrev |-> t[3], smaLongPrev |-> t[4],
     smaShortBack3 |-> t[5],
     rsi |-> r[1], rsiPrev |-> r[2],
     middle |-> b[2], upper |-> b[3], lower |-> b[4],
     middleBack20 |-> IF isNaN(b[2]) THEN NaN ELSE e[1],
     upperBack20 |-> IF isNaN(b[2]) THEN NaN ELSE e[2],
     lowerBack20 |-> IF isNaN(b[2]) THEN NaN ELSE e[3],
     adx |-> a[1], pdi |-> a[2], ndi |-> a[3],
     bullishPattern |-> bullish, bearishPattern |-> bearish]

Snapshots ==
    { Snapshot(t, r, b, e, a, bullish, bearish) :
        t \in TrendSamples, r \in RsiSamples, b \in BandSamples,
        e \in EarlierBandSamples, a \in AdxSamples,
        bullish \in BOOLEAN, bearish \in BOOLEAN }

\* Normalized scores on both sides of the margin of 10 and of the
\* threshold of 70.
ScoreSamples == {0, 3999, 4000, 5000, 5500, 6000, 6001, 6999, 7000, 7001, 7500, 10000}

\* The snapshots the labelling is applied to with the scores above.
LabelSnapshots ==
    { x \in Snapshots :
        /\ ~x.bullishPattern /\ ~x.bearishPattern
        /\ x.rsi \in {NaN, 4000, 5000, 6000} /\ x.rsiPrev \in {NaN, 3500, 5000, 5500}
        /\ x.price = 3000 /\ isNaN(x.upperBack20)
        /\ x.adx \in {NaN, 4000} /\ x.pdi \in {NaN, 3000}
        /\ isNaN(x.smaShort) = isNaN(x.smaLong)
        /\ x.smaShort \in {NaN, 3100, 2900, 3000} }

\* strategy.ts:436-706 applied to the indicator values x.
AggregateStep ==
    /\ pc[Analyst] = "idle" /\ signal[Analyst] = Pending
    /\ \E x \in Snapshots :
         signal' = [signal EXCEPT ![Analyst] = Aggregate(x, requiredDataPoints("1wk"))]
    /\ UNCHANGED <<now, lastRequestTime, pc, interval, retries, wakeAt, failedAt,
                   attempts, resp, fetched, sends, overlap>>

\* strategy.ts:642-706 applied to the indicator values x and two normalized
\* scores of all five categories (totalSignals = 100).
ConcludeStep ==
    /\ pc[Analyst] = "idle" /\ signal[Analyst] = Pending
    /\ \E x \in LabelSnapshots, bullish \in ScoreSamples, bearish \in ScoreSamples :
         signal' = [signal EXCEPT
                      ![Analyst] = Conclude(x, requiredDataPoints("1wk"),
                                            Score(100, bullish, bearish),
                                            Score(100, bullish, bearish))]
    /\ UNCHANGED <<now, lastRequestTime, pc, interval, retries, wakeAt, failedAt,
                   attempts, resp, fetched, sends, overlap>>

NextAggregate == AggregateStep \/ ConcludeStep

AggregatorSpec == Init /\ [][NextAggregate]_vars

----------------------------------------------------------------------------
(* Fairness *)

\* The steps of the fetch: the clock, the timers and the provider's answer.
FetchStep ==
    \/ pc[Analyst] \in {"rateLimitSleep", "backoffSleep"} /\ Tick
    \/ RateLimitWake(Analyst)
    \/ Response(Analyst, SignalResponses)
    \/ BackoffWake(Analyst)

\* The event loop runs every timer that is due, and every request that was
\* sent settles, with an answer or with a failure.
FairSignalSpec == SignalSpec /\ WF_vars(FetchStep)

----------------------------------------------------------------------------
(* Properties of the fetcher *)

Gap == IF Len(sends) = 2 THEN sends[2] - sends[1] ELSE RATE_LIMIT_DELAY

\* The requests caller p has sent in its current call.
Sent(p) == Len(attempts[p]) + (IF pc[p] = "request" THEN 1 ELSE 0)

Terminal(p) == pc[p] \in {"fetched", "done"}

\* C1: any two outbound provider requests, of whatever calls, are issued at
\* least RATE_LIMIT_DELAY (2000 ms) apart.
C1_AllRequestsSpaced == Gap >= 2000

\* C2: as long as no two getHistoricalData calls were in flight at once,
\* every outbound attempt (first attempts and retries) is sent at least
\* 2000 ms after the previous one, and lastRequestTime is the time of the
\* latest attempt.
C2_SequentialRequestsSpaced ==
    ~overlap => /\ Gap >= 2000
                /\ Len(sends) > 0 => lastRequestTime = sends[Len(sends)]

\* A later call, made alone, had to wait for the spacing and sent its request
\* exactly 2000 ms after the previous one.
C2_Witness ==
    /\ ~overlap
    /\ Len(sends) = 2 /\ sends[2] - sends[1] = 2000
    /\ \E p \in Callers : pc[p] = "request" /\ retries[p] = 0

\* The entries of close that are not null, in their order.
NonNullCount(close) == Cardinality({j \in 1..Len(close) : close[j] # Null})

NthNonNull(close, i) ==
    CHOOSE j \in 1..Len(close) :
        close[j] # Null /\ Cardinality({m \in 1..j : close[m] # Null}) = i

IsCloseMinusNulls(data, close) ==
    /\ Len(data) = NonNullCount(close)
    /\ \A i \in 1..Len(data) : data[i] = close[NthNonNull(close, i)]

\* C3: a 429 on attempt k < 3 is followed by a backoff of 2^k seconds (2 s
\* after attempt 1, 4 s after attempt 2) and then by attempt k+1, which is
\* not sent before the backoff has elapsed; a call that succeeds (in
\* particular after 429, 429, 200) returns the last response's close series
\* minus its nulls.
C3_RateLimitedBackoff ==
    /\ [](\A p \in Callers :
            /\ \A k \in 1..Len(attempts[p]) :
                 (attempts[p][k].status = 429 /\ k < 3) =>
                    /\ attempts[p][k].backoff = (IF k = 1 THEN 2000 ELSE 4000)
                    /\ k = Len(attempts[p]) =>
                         pc[p] \in {"backoffSleep", "rateLimitSleep", "request"}
            /\ fetched[p].kind = "data" =>
                 IsCloseMinusNulls(fetched[p].data, resp[p].close))
    /\ [][\A p \in Callers :
            (pc[p] # "request" /\ pc'[p] = "request" /\ Len(attempts[p]) > 0) =>
               now' >= failedAt[p] + attempts[p][Len(attempts[p])].backoff]_vars

\* 429, 429, then a 200 whose close array holds a null: the call succeeded.
C3_Witness ==
    \E p \in Callers :
        /\ fetched[p].kind = "data"
        /\ Len(attempts[p]) = 3
        /\ attempts[p][1].status = 429 /\ attempts[p][2].status = 429
        /\ NonNullCount(resp[p].close) < Len(resp[p].close)
        /\ Len(fetched[p].data) > 0

\* C4: a 404 on any attempt ends getHistoricalData at once with the
\* symbol-not-found error: no backoff is slept and no further request is sent.
C4_NotFoundIsTerminal ==
    \A p \in Callers : \A k \in 1..Len(attempts[p]) :
        attempts[p][k].status = 404 =>
            /\ k = Len(attempts[p])
            /\ attempts[p][k].backoff = 0
            /\ Terminal(p)
            /\ fetched[p].kind = "error" /\ fetched[p].error = "SymbolNotFound"

\* A 404 on the first attempt, with two attempts of the budget left.
C4_Witness ==
    \E p \in Callers :
        /\ Len(attempts[p]) = 1 /\ attempts[p][1].status = 404
        /\ pc[p] = "fetched"

EmptyOrMalformedClose(r) ==
    r.status = 200 /\ (r.shape = "nonArray" \/ (r.shape = "array" /\ Len(r.close) = 0))

\* C5 as stated: a response whose close array is empty or not an array ends
\* getHistoricalData on that attempt (it is not retried).
C5_EmptyCloseIsTerminal ==
    \A p \in Callers : EmptyOrMalformedClose(resp[p]) => Terminal(p)

\* C5 amended: a response whose close array is empty or not an array fails
\* the attempt; on attempt k < 3 the call backs off k seconds and goes on to
\* attempt k+1, and only on attempt 3 it fails for good, with the aggregated
\* error.
C5_EmptyCloseIsRetried ==
    \A p \in Callers : EmptyOrMalformedClose(resp[p]) =>
        /\ fetched[p].kind # "data"
        /\ retries[p] = Len(attempts[p])
        /\ retries[p] < 3 =>
              /\ pc[p] = "backoffSleep"
              /\ wakeAt[p] = failedAt[p] + 1000 * retries[p]
        /\ retries[p] >= 3 =>
              /\ Terminal(p)
              /\ fetched[p].kind = "error" /\ fetched[p].error = "FailedAfterRetries"

\* An empty close array on the first attempt: the call is backing off.
C5_Witness ==
    \E p \in Callers :
        /\ EmptyOrMalformedClose(resp[p]) /\ resp[p].shape = "array"
        /\ retries[p] = 1 /\ pc[p] = "backoffSleep"

\* C6: one call sends at most 3 requests; when the third attempt fails with
\* anything but a 404 the call fails with the aggregated error, which holds
\* the response payload exactly when the last failure carried one (the
\* invalid-structure error of a response with a body).
C6_RetriesExhausted ==
    \A p \in Callers :
        /\ Sent(p) <= 3
        /\ (Len(attempts[p]) = 3 /\ attempts[p][3].status \notin {200, 404}) =>
              /\ Terminal(p)
              /\ fetched[p].kind = "error"
              /\ fetched[p].error = "FailedAfterRetries"
              /\ fetched[p].responseData
                   <=> (resp[p].status = 200 /\ resp[p].shape = "noClose")

\* Three 429s in a row.
C6_Witness ==
    \E p \in Callers :
        /\ Len(attempts[p]) = 3
        /\ \A k \in 1..3 : attempts[p][k].status = 429
        /\ fetched[p].kind = "error"

\* C9: a series getHistoricalData returns holds no null and at least one entry.
C9_ReturnedSeriesNonEmpty ==
    \A p \in Callers : fetched[p].kind = "data" =>
        /\ Len(fetched[p].data) >= 1
        /\ \A i \in 1..Len(fetched[p].data) : fetched[p].data[i] # Null

\* C16: a failure other than a 429 and a 404 (malformed payload, network
\* error, any other status) on attempt k < 3 is followed by a backoff of k
\* seconds (1 s after the first failure, 2 s after the second) and then by
\* attempt k+1, which is not sent before the backoff has elapsed; on such
\* failures the call gives up on the third attempt and never before.
C16_LinearBackoff ==
    /\ [](\A p \in Callers :
            /\ \A k \in 1..Len(attempts[p]) :
                 (attempts[p][k].status = 0 /\ k < 3) =>
                    /\ attempts[p][k].backoff = k * 1000
                    /\ k = Len(attempts[p]) =>
                         pc[p] \in {"backoffSleep", "rateLimitSleep", "request"}
            /\ (fetched[p].kind = "error" /\ fetched[p].error = "FailedAfterRetries") =>
                 Len(attempts[p]) = 3)
    /\ [][\A p \in Callers :
            (pc[p] = "backoffSleep" /\ pc'[p] # "backoffSleep") =>
               /\ now' >= failedAt[p] + Len(attempts[p]) * 1000
                    \/ attempts[p][Len(attempts[p])].status # 0
               /\ pc'[p] \in {"rateLimitSleep", "request"}]_vars

\* Two failures that are neither a 429 nor a 404, each slept out (1 s, then
\* 2 s), and the third request is out.
C16_Witness ==
    \E p \in Callers :
        /\ Len(attempts[p]) = 2
        /\ attempts[p][1].status = 0 /\ attempts[p][1].backoff = 1000
        /\ attempts[p][2].status = 0 /\ attempts[p][2].backoff = 2000
        /\ pc[p] = "request"

----------------------------------------------------------------------------
(* Properties of getSignal *)

Labels == {"StrongBuy", "Buy", "StrongSell", "Sell", "Mixed", "NoClear"}

\* Caller p has its answer.
Answered(p) == pc[p] = "done"

\* What getSignal hands back is a text, and the failure of the fetch, if it
\* failed, is the message of the 'Error al analizar' text.
ReturnsText(p) ==
    /\ signal[p].kind \in {"pending", "text"}
    /\ Answered(p) => signal[p].kind = "text"
    /\ Answered(p) /\ fetched[p].kind = "error"
         => signal[p].label = "ErrorAlAnalizar" /\ signal[p].message = fetched[p].error

\* C7: getSignal never fails.  Whatever the fetch ends with (a series, 404,
\* retries exhausted, a malformed payload, an empty series), the call returns
\* a text and throws nothing; a failure of the fetch becomes the 'Error al
\* analizar' text with the failure's message; and the fetch of every call
\* that was made ends, so that getSignal goes on to its answer.
C7_GetSignalNeverFails ==
    /\ [](\A p \in Callers : ReturnsText(p))
    /\ \A p \in Callers : (pc[p] \in FetchActive) ~> Terminal(p)

\* The fetch ran out of retries on a malformed payload and the caller got the
\* error text.
C7_Witness ==
    /\ Answered(Analyst)
    /\ fetched[Analyst].kind = "error"
    /\ fetched[Analyst].error = "FailedAfterRetries"
    /\ resp[Analyst].shape = "noClose"
    /\ signal[Analyst].kind = "text"
    /\ signal[Analyst].label = "ErrorAlAnalizar"

\* The minimum length the specification gives for an interval.
ConfiguredMinimum(iv) ==
    IF iv = "1d" THEN 15 ELSE IF iv = "1wk" THEN 10 ELSE IF iv = "1mo" THEN 6 ELSE 10

TooShort(p) ==
    /\ Answered(p)
    /\ fetched[p].kind = "data"
    /\ Len(fetched[p].data) < ConfiguredMinimum(interval[p])

\* C8: a fetched series shorter than the minimum of its interval (15 for 1d,
\* 10 for 1wk, 6 for 1mo, 10 otherwise) gets the insufficient-data text,
\* never one of the six signal labels, and no indicator is computed for it.
C8_ShortSeriesIsInsufficient ==
    \A p \in Callers :
        TooShort(p) =>
            /\ signal[p].kind = "text"
            /\ signal[p].label = "InsufficientData"
            /\ signal[p].label \notin Labels
            /\ signal[p].required = ConfiguredMinimum(interval[p])
            /\ signal[p].ind = NotComputed
            /\ signal[p].totalSignals = 0

\* A daily series of 14 points, enough for any other interval, is refused.
C8_Witness ==
    /\ TooShort(Analyst)
    /\ interval[Analyst] = "1d"
    /\ Len(fetched[Analyst].data) = 14
    /\ signal[Analyst].label = "InsufficientData"

\* The indicators that are defined at the latest index, of the four the
\* recommendation rests on.
DefinedIndicators(x) ==
    { k \in {"trend", "rsi", "bollinger", "adx"} :
        CASE k = "trend" -> x.smaShort # NaN /\ x.smaLong # NaN
          [] k = "rsi" -> x.rsi # NaN
          [] k = "bollinger" -> x.upper # NaN /\ x.lower # NaN
          [] k = "adx" -> x.adx # NaN }

\* The analysis ran for caller p.
Analysed(p) ==
    /\ Answered(p)
    /\ fetched[p].kind = "data"
    /\ Len(fetched[p].data) >= ConfiguredMinimum(interval[p])

\* C10: one of the six signal labels is emitted only with at least 3 of the
\* indicators defined at the latest index; with fewer than 3 the answer is
\* the insufficient-data classification, whatever the two scores are.
C10_ThreeIndicatorsNeeded ==
    \A p \in Callers :
        Analysed(p) =>
            /\ signal[p].label \in Labels
                 => Cardinality(DefinedIndicators(signal[p].ind)) >= 3
            /\ Cardinality(DefinedIndicators(signal[p].ind)) < 3
                 => signal[p].label = "InsufficientIndicators"

\* Two indicators are defined and the bearish score leads by more than the
\* margin, with the RSI above 50: the answer is still insufficient data.
C10_Witness ==
    /\ Analysed(Analyst)
    /\ Cardinality(DefinedIndicators(signal[Analyst].ind)) = 2
    /\ signal[Analyst].bearishSignals > signal[Analyst].bullishSignals + 10 * Scale
    /\ signal[Analyst].ind.rsi > 50 * Scale
    /\ signal[Analyst].label = "InsufficientIndicators"

\* getSignal went through its aggregation for caller p: the text holds the
\* two scores.
Concluded(p) ==
    signal[p].kind = "text" /\ signal[p].label \in Labels \cup {"InsufficientIndicators"}

BullishLead(r) == r.bullishSignals > r.bearishSignals + 10 * Scale

BearishLead(r) == r.bearishSignals > r.bullishSignals + 10 * Scale

\* The short average above the long one, or the RSI below 50.
BullishConfirmed(x) ==
    \/ x.smaShort # NaN /\ x.smaLong # NaN /\ x.smaShort > x.smaLong
    \/ x.rsi # NaN /\ x.rsi < 50 * Scale

\* The short average below the long one, or the RSI above 50.
BearishConfirmed(x) ==
    \/ x.smaShort # NaN /\ x.smaLong # NaN /\ x.smaShort < x.smaLong
    \/ x.rsi # NaN /\ x.rsi > 50 * Scale

\* C11: with at least 3 valid indicators the label follows from the two
\* normalized scores with the constants 10 and 70.  No lead of more than 10
\* points: no clear signal.  Bullish leads by more than 10 and the trend is
\* bullish or the RSI is below 50: BUY, and STRONG BUY exactly when bullish
\* is above 70.  Bullish leads without confirmation: mixed signals.  The
\* bearish side is the mirror image (trend bearish or RSI above 50).
C11_LabelFromScores ==
    \A p \in Callers :
        Concluded(p) /\ Cardinality(DefinedIndicators(signal[p].ind)) >= 3 =>
            LET r == signal[p] IN
            /\ ~BullishLead(r) /\ ~BearishLead(r) => r.label = "NoClear"
            /\ BullishLead(r) /\ BullishConfirmed(r.ind) =>
                  /\ r.label \in {"Buy", "StrongBuy"}
                  /\ r.label = "StrongBuy" <=> r.bullishSignals > 70 * Scale
            /\ BullishLead(r) /\ ~BullishConfirmed(r.ind) => r.label = "Mixed"
            /\ BearishLead(r) /\ BearishConfirmed(r.ind) =>
                  /\ r.label \in {"Sell", "StrongSell"}
                  /\ r.label = "StrongSell" <=> r.bearishSignals > 70 * Scale
            /\ BearishLead(r) /\ ~BearishConfirmed(r.ind) => r.label = "Mixed"

\* 75 against 60 with the short average above the long one: STRONG BUY.
C11_Witness ==
    /\ Concluded(Analyst)
    /\ Cardinality(DefinedIndicators(signal[Analyst].ind)) >= 3
    /\ signal[Analyst].bullishSignals = 75 * Scale
    /\ signal[Analyst].bearishSignals = 60 * Scale
    /\ signal[Analyst].ind.smaShort > signal[Analyst].ind.smaLong
    /\ signal[Analyst].ind.smaLong # NaN
    /\ signal[Analyst].label = "StrongBuy"

\* C12: before normalization neither accumulator is negative or above
\* totalSignals, and after normalization bullishSignals and bearishSignals
\* each lie in [0, 100], whatever indicators are defined and whatever
\* patterns fired.
C12_ScoresWithinRange ==
    \A p \in Callers :
        LET r == signal[p] IN
        /\ r.totalSignals \in 0..100
        /\ r.rawBullish >= 0 /\ r.rawBullish <= r.totalSignals * Scale
        /\ r.rawBearish >= 0 /\ r.rawBearish <= r.totalSignals * Scale
        /\ r.bullishSignals >= 0 /\ r.bullishSignals <= 100 * Scale
        /\ r.bearishSignals >= 0 /\ r.bearishSignals <= 100 * Scale

\* Only the RSI and the bands are counted (35 points) and every rule of both
\* adds to the bullish side: oversold RSI, price at the lower band, narrowing
\* bands with a rising short average.  The bullish score is exactly 100.
C12_Witness ==
    /\ Concluded(Analyst)
    /\ signal[Analyst].totalSignals = weights.momentum + weights.volatility
    /\ signal[Analyst].rawBullish = signal[Analyst].totalSignals * Scale
    /\ signal[Analyst].bullishSignals = 100 * Scale
    /\ signal[Analyst].bearishSignals = 0

\* The indicator values x with the bands of 20 bars earlier left out, so that
\* the rule of the narrowing bands, the one that reads the short average,
\* allocates nothing.
WithoutNarrowing(x) ==
    [x EXCEPT !.middleBack20 = NaN, !.upperBack20 = NaN, !.lowerBack20 = NaN]

\* C13: an indicator that is undefined at the latest index adds nothing to
\* the accumulators and does not steer the allocation of another category.
\* In particular, while the short average is undefined the Bollinger rule
\* that reads it allocates nothing: the accumulators are what they are
\* without that rule.
C13_UndefinedSteersNothing ==
    \A p \in Callers :
        Analysed(p) /\ Concluded(p) /\ isNaN(signal[p].ind.smaShort) =>
            /\ signal[p].rawBullish = RawScores(WithoutNarrowing(signal[p].ind)).bullish
            /\ signal[p].rawBearish = RawScores(WithoutNarrowing(signal[p].ind)).bearish

\* C14: for the daily interval the query window is long enough for the
\* slowest indicator.  A window of W days holds at most W daily points, and W
\* is at least the 200 points SMA(200) needs at the latest index.
C14_DailyWindowCoversSlowest ==
    \A p \in Callers :
        pc[p] # "idle" /\ interval[p] = "1d" =>
            QueryWindowDays(interval[p]) >= smaLongPeriod(interval[p])

\* The morning-star predicate at the latest bar of the series, the open of a
\* bar being the close of the bar before: bar i-2 is bearish, the body of
\* bar i-1 is smaller than 0.3 times the body of bar i-2, bar i is bullish
\* and closes above the midpoint of bar i-2.
MorningStar(data) ==
    LET i == Len(data) - 1
        c(n) == At(data, n)
        o(n) == At(data, n - 1)
    IN /\ i >= 3
       /\ o(i - 2) > c(i - 2)
       /\ Abs(c(i - 1) - o(i - 1)) * 10 < Abs(c(i - 2) - o(i - 2)) * 3
       /\ c(i) > o(i)
       /\ c(i) * 2 > o(i - 2) + c(i - 2)

\* The mirrored predicate.
EveningStar(data) ==
    LET i == Len(data) - 1
        c(n) == At(data, n)
        o(n) == At(data, n - 1)
    IN /\ i >= 3
       /\ o(i - 2) < c(i - 2)
       /\ Abs(c(i - 1) - o(i - 1)) * 10 < Abs(c(i - 2) - o(i - 2)) * 3
       /\ c(i) < o(i)
       /\ c(i) * 2 < o(i - 2) + c(i - 2)

\* C15: identifyPatterns flags bullish at the latest index whenever the
\* morning-star predicate holds there, and bearish whenever the evening-star
\* predicate does.
C15_StarsAreFlagged ==
    \A p \in Callers :
        Analysed(p) /\ Concluded(p) =>
            /\ MorningStar(fetched[p].data) => signal[p].ind.bullishPattern
            /\ EveningStar(fetched[p].data) => signal[p].ind.bearishPattern

\* C17: calculateADX guards the zero-sum case.  Where +DI and -DI are both
\* defined DX is a defined number, also when +DI + -DI = 0, so that ADX is
\* defined at every index from 2 * 14 - 1 = 27 on: with 28 points or more and
\* both directional indexes defined at the latest index, ADX is defined there.
C17_AdxDefinedAfterWarmUp ==
    \A p \in Callers :
        (/\ Analysed(p) /\ Concluded(p)
         /\ signal[p].ind.i >= 27
         /\ ~isNaN(signal[p].ind.pdi) /\ ~isNaN(signal[p].ind.ndi))
            => ~isNaN(signal[p].ind.adx)

\* C18: the label and the confidence tier agree.  The tier is ALTA (high)
\* when the larger of the two normalized scores is at least 70, MEDIA when it
\* is at least 40 and BAJA otherwise, and a STRONG BUY or STRONG SELL always
\* comes with ALTA.
C18_ConfidenceAgreesWithLabel ==
    \A p \in Callers :
        Concluded(p) =>
            LET r == signal[p]
                top == IF r.bullishSignals > r.bearishSignals THEN r.bullishSignals
                       ELSE r.bearishSignals
            IN /\ top >= 70 * Scale => r.confidence = "ALTA"
               /\ top >= 40 * Scale /\ top < 70 * Scale => r.confidence = "MEDIA"
               /\ top < 40 * Scale => r.confidence = "BAJA"
               /\ r.label \in {"StrongBuy", "StrongSell"} => r.confidence = "ALTA"

\* A STRONG SELL just above the threshold: 70.01 against 60.
C18_Witness ==
    /\ Concluded(Analyst)
    /\ signal[Analyst].label = "StrongSell"
    /\ signal[Analyst].bearishSignals = 70 * Scale + 1
    /\ signal[Analyst].bullishSignals = 60 * Scale
    /\ signal[Analyst].confidence = "ALTA"

============================================================================
